---- MODULE Spec2Model ----
(***************************************************************************)
(* Model of src/main.py (polar-plant dashboard): the name normalizer, the  *)
(* file locator, the two memoized source loaders and the filter step of    *)
(* main().  Spec is one pass of main() in a fresh process; SpecSession is  *)
(* a process serving several interactions while the files change;          *)
(* SpecLib calls normalize_str and find_file directly.                     *)
(*                                                                         *)
(* Text is a sequence of Unicode code points.  The alphabet of the model   *)
(* is ASCII, precomposed Hangul syllables and conjoining Hangul jamo, on   *)
(* which NFC is the Hangul composition algorithm of the Unicode standard.  *)
(* A DataFrame is [hasCols, rows]: pd.DataFrame() has neither columns nor  *)
(* rows; a frame read from a header-only file has columns and no rows.     *)
(* DATA_DIR is either absent or a readable directory.  What a file holds   *)
(* is drawn when the file is read.  diags is the log of the st.warning and *)
(* st.error calls the code executes.                                       *)
(***************************************************************************)
EXTENDS Integers, Sequences, FiniteSets, TLC

VARIABLES
    dirExists,      \* DATA_DIR.exists()
    dirEntries,     \* DATA_DIR.iterdir(), in listing order
    pc,             \* position of the interaction pass in main()
    envIdx,         \* load_environment_data: index of the site being loaded
    envAcc,         \* load_environment_data: combined_df
    gIdx,           \* load_growth_data: index of the sheet being read
    gAcc,           \* load_growth_data: combined_df
    env_df,         \* main: env_df
    growth_df,      \* main: growth_df
    diags,          \* st.warning / st.error calls, in order
    opened,         \* files handed to pd.read_csv / pd.ExcelFile, in order
    selected_school,\* main: selected_school
    filtered_env,   \* main: filtered_env
    filtered_growth,\* main: filtered_growth
    call,           \* a direct call of normalize_str / find_file and its result
    envCache,       \* st.cache_data entry of load_environment_data
    growthCache,    \* st.cache_data entry of load_growth_data
    loads,          \* executions of each loader's body completed
    runs,           \* the number of the interaction pass
    earlier         \* the selections of the passes before this one

vars == <<dirExists, dirEntries, pc, envIdx, envAcc, gIdx, gAcc, env_df,
          growth_df, diags, opened, selected_school, filtered_env,
          filtered_growth, call, envCache, growthCache, loads, runs,
          earlier>>

fsVars == <<dirExists, dirEntries>>

passVars == <<runs, earlier>>

memoVars == <<envCache, growthCache, loads, passVars>>

mainVars == <<pc, envIdx, envAcc, gIdx, gAcc, env_df, growth_df, diags,
              opened, selected_school, filtered_env, filtered_growth, memoVars>>

----------------------------------------------------------------------------
(* Bounds of the model. *)

\* rows of one CSV file or one workbook sheet: 0..MaxRows
MaxRows == 2
\* sheets of the workbook: 0..MaxSheets
MaxSheets == 2
\* directory entries in a direct find_file call: 0..MaxEntries
MaxEntries == 2
\* interaction passes of one process: 1..MaxRuns
MaxRuns == 2

----------------------------------------------------------------------------
(* Unicode: Hangul syllable composition (unicodedata.normalize). *)

SBase == 44032
LBase == 4352
VBase == 4449
TBase == 4519
LCount == 19
VCount == 21
TCount == 28

NCount == VCount * TCount
SCount == LCount * NCount

IsSyllable(c) == c >= SBase /\ c < SBase + SCount
IsL(c) == c >= LBase /\ c < LBase + LCount
IsV(c) == c >= VBase /\ c < VBase + VCount
IsT(c) == c > TBase /\ c < TBase + TCount
IsLV(c) == IsSyllable(c) /\ (c - SBase) % TCount = 0

\* canonical decomposition of one code point
DecomposeChar(c) ==
    IF IsSyllable(c)
    THEN LET si == c - SBase
             l  == LBase + (si \div NCount)
             v  == VBase + ((si % NCount) \div TCount)
             t  == TBase + (si % TCount)
         IN  IF t = TBase THEN <<l, v>> ELSE <<l, v, t>>
    ELSE <<c>>

RECURSIVE DecomposeFrom(_, _)
DecomposeFrom(s, i) ==
    IF i > Len(s) THEN <<>> ELSE DecomposeChar(s[i]) \o DecomposeFrom(s, i + 1)

Decompose(s) == DecomposeFrom(s, 1)

\* canonical composition: `out` is the text composed so far
ComposeStep(out, c) ==
    IF out = <<>> THEN <<c>>
    ELSE LET n == Len(out)
         IN  IF IsV(c) /\ IsL(out[n])
             THEN [out EXCEPT ![n] = SBase + ((out[n] - LBase) * VCount + (c - VBase)) * TCount]
             ELSE IF IsT(c) /\ IsLV(out[n])
             THEN [out EXCEPT ![n] = out[n] + (c - TBase)]
             ELSE Append(out, c)

RECURSIVE ComposeFrom(_, _, _)
ComposeFrom(out, s, i) ==
    IF i > Len(s) THEN out ELSE ComposeFrom(ComposeStep(out, s[i]), s, i + 1)

NFC(s) == ComposeFrom(<<>>, Decompose(s), 1)

NFD(s) == Decompose(s)

\* a text with only the final consonants decomposed (neither NFC nor NFD)
HalfChar(c) ==
    IF IsSyllable(c) /\ ~IsLV(c)
    THEN <<c - ((c - SBase) % TCount), TBase + ((c - SBase) % TCount)>>
    ELSE <<c>>

RECURSIVE HalfFrom(_, _)
HalfFrom(s, i) ==
    IF i > Len(s) THEN <<>> ELSE HalfChar(s[i]) \o HalfFrom(s, i + 1)

Half(s) == HalfFrom(s, 1)

\* str.lower() on the model's alphabet: ASCII capitals only
LowerChar(c) == IF c >= 65 /\ c <= 90 THEN c + 32 ELSE c

Lower(s) == [i \in 1..Len(s) |-> LowerChar(s[i])]

\* Python's `t in s` on strings
Contains(s, t) ==
    \E i \in 0..(Len(s) - Len(t)) : SubSeq(s, i + 1, i + Len(t)) = t

----------------------------------------------------------------------------
(* Configuration. *)

Songdo  == <<49569, 46020, 44256>>
Haneul  == <<54616, 45720, 44256>>
Ara     == <<50500, 46972, 44256>>
Dongsan == <<46041, 49328, 44256>>

\* SCHOOL_CONFIG, in insertion order
SCHOOL_CONFIG ==
    << [name |-> Songdo,  ec |-> 1],
       [name |-> Haneul,  ec |-> 2],
       [name |-> Ara,     ec |-> 4],
       [name |-> Dongsan, ec |-> 8] >>

NumSchools == Len(SCHOOL_CONFIG)

SchoolKeys == [i \in 1..NumSchools |-> SCHOOL_CONFIG[i].name]

Schools == {SchoolKeys[i] : i \in 1..NumSchools}

TargetEc(school) ==
    SCHOOL_CONFIG[CHOOSE i \in 1..NumSchools : SCHOOL_CONFIG[i].name = school].ec

\* "전체"
ALL == <<51204, 52404>>

\* "_환경데이터"
EnvMarker == <<95, 54872, 44221, 45936, 51060, 53552>>

\* "4개교_생육결과데이터"
GrowthName == <<52, 44060, 44368, 95, 49373, 50977, 44208, 44284, 45936, 51060, 53552>>

ExtCsv   == <<46, 99, 115, 118>>
ExtCSV   == <<46, 67, 83, 86>>
ExtXlsx  == <<46, 120, 108, 115, 120>>
ExtTxt   == <<46, 116, 120, 116>>

----------------------------------------------------------------------------
(* Name normalizer and file locator. *)

\* mutant: no normalization
normalize_str_Identity(s) == s

normalize_str(s) == IF s # <<>> THEN NFC(s) ELSE s

\* mutant: the extension ignored
EntryMatches_AnyExt(e, target, extension) ==
    Contains(normalize_str(e.stem), target)

\* the test of one directory entry
EntryMatches(e, target, extension) ==
    /\ Lower(e.suffix) = Lower(extension)
    /\ Contains(normalize_str(e.stem), target)

\* mutant: the loop runs to its end and the last match is returned
ScanFrom_Last(entries, i, target, extension) ==
    LET hits == {k \in i..Len(entries) :
                    EntryMatches(entries[k], target, extension)}
    IN  IF hits = {} THEN 0 ELSE CHOOSE k \in hits : \A j \in hits : j <= k

\* the loop over directory.iterdir() from position i on
RECURSIVE ScanFrom(_, _, _, _)
ScanFrom(entries, i, target, extension) ==
    IF i > Len(entries) THEN 0
    ELSE IF EntryMatches(entries[i], target, extension) THEN i
    ELSE ScanFrom(entries, i + 1, target, extension)

\* find_file: the position in the listing of the path returned; 0 is None
find_file(exists, entries, partial_name, extension) ==
    IF ~exists THEN 0
    ELSE ScanFrom(entries, 1, normalize_str(partial_name), extension)

----------------------------------------------------------------------------
(* Tables. *)

\* pd.DataFrame()
EmptyDf == [hasCols |-> FALSE, rows |-> <<>>]

\* df.empty
IsEmpty(df) == df.rows = <<>>

\* mutant: the value left as read
ToDatetime_KeepsRaw(raw) == raw

\* pd.to_datetime(..., errors='coerce') on one value
ToDatetime(raw) == IF raw = "r1" THEN "ts1" ELSE "NaT"

\* mutant: every site tagged with the first site's target
ReadEnvCsv_FixedEc(c, school, src) ==
    [hasCols |-> TRUE,
     rows |-> [k \in 1..Len(c.times) |->
                 [school    |-> school,
                  target_ec |-> SCHOOL_CONFIG[1].ec,
                  src       |-> src,
                  n         |-> k,
                  time      |-> IF c.hasTime THEN ToDatetime(c.times[k])
                                ELSE "absent"]]]

\* pd.read_csv and the column steps of load_environment_data on one file
ReadEnvCsv(c, school, src) ==
    [hasCols |-> TRUE,
     rows |-> [k \in 1..Len(c.times) |->
                 [school    |-> school,
                  target_ec |-> TargetEc(school),
                  src       |-> src,
                  n         |-> k,
                  time      |-> IF c.hasTime THEN ToDatetime(c.times[k])
                                ELSE "absent"]]]

\* mutant: the rows tagged with the sheet's own name
ReadSheet_TagsSheetName(sh, school, src) ==
    [hasCols |-> TRUE,
     rows |-> [k \in 1..sh.n |->
                 [school    |-> sh.name,
                  target_ec |-> TargetEc(school),
                  src       |-> src,
                  n         |-> k,
                  time      |-> "absent"]]]

\* pd.read_excel of one sheet and its tagging in load_growth_data
ReadSheet(sh, school, src) ==
    [hasCols |-> TRUE,
     rows |-> [k \in 1..sh.n |->
                 [school    |-> school,
                  target_ec |-> TargetEc(school),
                  src       |-> src,
                  n         |-> k,
                  time      |-> "absent"]]]

\* mutant: the new rows put before the accumulated ones
Concat_Prepend(combined, df) ==
    [hasCols |-> combined.hasCols \/ df.hasCols,
     rows    |-> df.rows \o combined.rows]

\* pd.concat([combined_df, df], ignore_index=True)
Concat(combined, df) ==
    [hasCols |-> combined.hasCols \/ df.hasCols,
     rows    |-> combined.rows \o df.rows]

\* mutant: the comparison inverted
FilterSchool_Inverted(df, selected) ==
    [hasCols |-> df.hasCols,
     rows    |-> SelectSeq(df.rows, LAMBDA r : r.school # selected)]

\* df[df['school'] == selected]; defined only when df has the column
FilterSchool(df, selected) ==
    [hasCols |-> df.hasCols,
     rows    |-> SelectSeq(df.rows, LAMBDA r : r.school = selected)]

\* the first configured site whose name the normalized sheet name contains;
\* <<>> is None
RECURSIVE MatchFrom(_, _)
MatchFrom(normalized_sheet, i) ==
    IF i > NumSchools THEN <<>>
    ELSE IF Contains(normalized_sheet, SchoolKeys[i]) THEN SchoolKeys[i]
    ELSE MatchFrom(normalized_sheet, i + 1)

\* mutant: the sheet name compared as stored
matched_school_Raw(sheet_name) == MatchFrom(sheet_name, 1)

matched_school(sheet_name) == MatchFrom(normalize_str(sheet_name), 1)

Diag(level, src, site) == [level |-> level, src |-> src, site |-> site]

----------------------------------------------------------------------------
(* The data directory and the files: the inputs of the model. *)

\* a directory entry
Entry(stem, suffix) == [stem |-> stem, suffix |-> suffix]

\* what reading a file yields: whether it parses, and then the rows of a CSV
\* (times: the raw time value of each row) or the sheets of a workbook
Content(readable, hasTime, times, sheets) ==
    [readable |-> readable, hasTime |-> hasTime, times |-> times,
     sheets |-> sheets]

Unreadable == Content(FALSE, FALSE, <<>>, <<>>)

\* whether the directory holds a file for site i
Presence == [1..NumSchools -> BOOLEAN]

\* the file of site i: the stem's form and the suffix's case vary
EnvEntry(i) ==
    Entry(IF i % 2 = 1 THEN NFD(SchoolKeys[i] \o EnvMarker)
          ELSE <<50, 52, 95>> \o SchoolKeys[i] \o EnvMarker,
          IF i > 2 THEN ExtCSV ELSE ExtCsv)

\* a well-formed CSV at listing position p: every row count in 0..MaxRows
\* occurs, with and without a time column
CsvAt(p) ==
    Content(TRUE, p % 2 = 0,
            [k \in 1..(p % (MaxRows + 1)) |-> IF k % 2 = 0 THEN "bad" ELSE "r1"],
            <<>>)

\* what pd.read_csv may find at listing position p
CsvContents(p) == {Unreadable, CsvAt(p)}

Sheet(name, readable, n) == [name |-> name, readable |-> readable, n |-> n]

\* "_데이터", "_2024", "Sheet1"
SfxData == <<95, 45936, 51060, 53552>>
Sfx2024 == <<95, 50, 48, 50, 52>>
Sheet1  == <<83, 104, 101, 101, 116, 49>>

SheetPool ==
    { Sheet(NFD(Songdo \o SfxData), TRUE, MaxRows),
      Sheet(Haneul, TRUE, 0),
      Sheet(Ara \o Sfx2024, TRUE, 1),
      Sheet(Dongsan \o Songdo, TRUE, 1),
      Sheet(Sheet1, TRUE, 1),
      Sheet(Dongsan, FALSE, 0) }

\* sequences of sheets, at most k long
RECURSIVE SheetLists(_)
SheetLists(k) ==
    IF k = 0 THEN {<<>>}
    ELSE SheetLists(k - 1) \cup
         {Append(l, sh) : l \in {x \in SheetLists(k - 1) : Len(x) = k - 1},
                          sh \in SheetPool}

\* sheet names of one workbook are distinct
DistinctSheetLists ==
    {l \in SheetLists(MaxSheets) :
        \A a, b \in 1..Len(l) : a # b => l[a].name # l[b].name}

\* what pd.ExcelFile may find
WbContents ==
    {Unreadable} \cup {Content(TRUE, FALSE, <<>>, l) : l \in DistinctSheetLists}

WbEntry == Entry(NFD(GrowthName), ExtXlsx)

\* entries no lookup of the loaders may return: a site's name with another
\* extension, the marker without a site name, a workbook named after a site
Decoys ==
    << Entry(Songdo \o EnvMarker, ExtTxt),
       Entry(EnvMarker, ExtCsv),
       Entry(Haneul, ExtXlsx) >>

RECURSIVE EnvEntries(_, _)
EnvEntries(present, i) ==
    IF i = 0 THEN <<>>
    ELSE (IF present[i] THEN <<EnvEntry(i)>> ELSE <<>>)
         \o EnvEntries(present, i - 1)

\* a listing: the sites' files against configuration order
Listing(present, wb) ==
    Decoys \o EnvEntries(present, NumSchools)
           \o (IF wb THEN <<WbEntry>> ELSE <<>>)

Reverse(l) == [k \in 1..Len(l) |-> l[Len(l) + 1 - k]]

\* the order of a listing is the file system's
Listings(present, wb) ==
    {Listing(present, wb), Reverse(Listing(present, wb))}

\* the content of the file at `path`: as read before, or else drawn from pool
ContentsAt(path, pool) ==
    IF \E k \in 1..Len(opened) : opened[k].path = path
    THEN {opened[k].content : k \in {j \in 1..Len(opened) : opened[j].path = path}}
    ELSE pool

Open(path, c) == [path |-> path, content |-> c]

----------------------------------------------------------------------------
(* The interaction pass of main(). *)

NoCall ==
    [fn |-> "none", text |-> <<>>, extension |-> <<>>, found |-> 0,
     result |-> <<>>]

\* an st.cache_data entry: absent, or the value the body returned
NoEntry == [set |-> FALSE, value |-> EmptyDf]

Cached(df) == [set |-> TRUE, value |-> df]

\* main's locals before load_environment_data has run
MainInit ==
    /\ envIdx = 1
    /\ envAcc = EmptyDf
    /\ gIdx = 0
    /\ gAcc = EmptyDf
    /\ env_df = EmptyDf
    /\ growth_df = EmptyDf
    /\ diags = <<>>
    /\ opened = <<>>
    /\ selected_school = <<>>
    /\ filtered_env = EmptyDf
    /\ filtered_growth = EmptyDf
    /\ call = NoCall
    /\ envCache = NoEntry
    /\ growthCache = NoEntry
    /\ loads = [env |-> 0, growth |-> 0]
    /\ runs = 1
    /\ earlier = <<>>

Init ==
    /\ \/ /\ dirExists = TRUE
          /\ \E present \in Presence, wb \in BOOLEAN :
                dirEntries \in Listings(present, wb)
       \/ /\ dirExists = FALSE
          /\ dirEntries = <<>>
    /\ pc = "env"
    /\ MainInit

\* mutant: a missing file ends the loop
EnvSite_BreakOnMissing ==
    /\ pc = "env"
    /\ ~envCache.set
    /\ envIdx <= NumSchools
    /\ LET school_name == SchoolKeys[envIdx]
           file_path   == find_file(dirExists, dirEntries,
                                    school_name \o EnvMarker, ExtCsv)
       IN  IF file_path # 0
           THEN \E c \in ContentsAt(file_path, CsvContents(file_path)) :
                /\ opened' = Append(opened, Open(file_path, c))
                /\ IF c.readable
                   THEN /\ envAcc' = Concat(envAcc,
                               ReadEnvCsv(c, school_name, file_path))
                        /\ diags' = diags
                   ELSE /\ envAcc' = envAcc
                        /\ diags' = Append(diags, Diag("error", "env", school_name))
           ELSE /\ opened' = opened
                /\ envAcc' = envAcc
                /\ diags' = Append(diags, Diag("warning", "env", school_name))
    /\ envIdx' = IF find_file(dirExists, dirEntries,
                             SchoolKeys[envIdx] \o EnvMarker, ExtCsv) = 0
                 THEN NumSchools + 1 ELSE envIdx + 1
    /\ UNCHANGED <<fsVars, pc, gIdx, gAcc, env_df, growth_df, selected_school,
                   filtered_env, filtered_growth, call, memoVars>>

\* mutant: a file that fails to parse discards the rows accumulated
EnvSite_ErrorResets ==
    /\ pc = "env"
    /\ ~envCache.set
    /\ envIdx <= NumSchools
    /\ LET school_name == SchoolKeys[envIdx]
           file_path   == find_file(dirExists, dirEntries,
                                    school_name \o EnvMarker, ExtCsv)
       IN  IF file_path # 0
           THEN \E c \in ContentsAt(file_path, CsvContents(file_path)) :
                /\ opened' = Append(opened, Open(file_path, c))
                /\ IF c.readable
                   THEN /\ envAcc' = Concat(envAcc,
                               ReadEnvCsv(c, school_name, file_path))
                        /\ diags' = diags
                   ELSE /\ envAcc' = EmptyDf
                        /\ diags' = Append(diags, Diag("error", "env", school_name))
           ELSE /\ opened' = opened
                /\ envAcc' = envAcc
                /\ diags' = Append(diags, Diag("warning", "env", school_name))
    /\ envIdx' = envIdx + 1
    /\ UNCHANGED <<fsVars, pc, gIdx, gAcc, env_df, growth_df, selected_school,
                   filtered_env, filtered_growth, call, memoVars>>

\* load_environment_data: one iteration of the loop over SCHOOL_CONFIG
EnvSite ==
    /\ pc = "env"
    /\ ~envCache.set
    /\ envIdx <= NumSchools
    /\ LET school_name == SchoolKeys[envIdx]
           file_path   == find_file(dirExists, dirEntries,
                                    school_name \o EnvMarker, ExtCsv)
       IN  IF file_path # 0
           THEN \E c \in ContentsAt(file_path, CsvContents(file_path)) :
                /\ opened' = Append(opened, Open(file_path, c))
                /\ IF c.readable
                   THEN /\ envAcc' = Concat(envAcc,
                               ReadEnvCsv(c, school_name, file_path))
                        /\ diags' = diags
                   ELSE /\ envAcc' = envAcc
                        /\ diags' = Append(diags, Diag("error", "env", school_name))
           ELSE /\ opened' = opened
                /\ envAcc' = envAcc
                /\ diags' = Append(diags, Diag("warning", "env", school_name))
    /\ envIdx' = envIdx + 1
    /\ UNCHANGED <<fsVars, pc, gIdx, gAcc, env_df, growth_df, selected_school,
                   filtered_env, filtered_growth, call, memoVars>>

\* load_environment_data: return combined_df
EnvReturn ==
    /\ pc = "env"
    /\ ~envCache.set
    /\ envIdx > NumSchools
    /\ envCache' = Cached(envAcc)
    /\ loads' = [loads EXCEPT !.env = @ + 1]
    /\ env_df' = envAcc
    /\ pc' = "growth"
    /\ UNCHANGED <<fsVars, envIdx, envAcc, gIdx, gAcc, growth_df, diags, opened,
                   selected_school, filtered_env, filtered_growth, call,
                   growthCache, passVars>>

\* mutant: the rows read before the exception returned
GrowthFail_KeepsRows ==
    /\ diags' = Append(diags, Diag("error", "growth", <<>>))
    /\ growthCache' = Cached(gAcc)
    /\ loads' = [loads EXCEPT !.growth = @ + 1]
    /\ growth_df' = gAcc
    /\ pc' = "check"

\* load_growth_data: report an error and return pd.DataFrame() (the branch
\* of a workbook not found, and the except branch)
GrowthFail ==
    /\ diags' = Append(diags, Diag("error", "growth", <<>>))
    /\ growthCache' = Cached(EmptyDf)
    /\ loads' = [loads EXCEPT !.growth = @ + 1]
    /\ growth_df' = EmptyDf
    /\ pc' = "check"

\* load_growth_data: locate and open the workbook
GrowthOpen ==
    /\ pc = "growth"
    /\ ~growthCache.set
    /\ LET file_path == find_file(dirExists, dirEntries, GrowthName, ExtXlsx)
       IN  IF file_path = 0
           THEN /\ GrowthFail
                /\ UNCHANGED <<opened, gIdx, gAcc>>
           ELSE \E c \in ContentsAt(file_path, WbContents) :
                /\ opened' = Append(opened, Open(file_path, c))
                /\ IF c.readable
                   THEN /\ gAcc' = EmptyDf
                        /\ gIdx' = 1
                        /\ pc' = "sheets"
                        /\ UNCHANGED <<diags, growth_df, growthCache, loads>>
                   ELSE /\ GrowthFail
                        /\ UNCHANGED <<gIdx, gAcc>>
    /\ UNCHANGED <<fsVars, envIdx, envAcc, env_df, selected_school,
                   filtered_env, filtered_growth, call, envCache, passVars>>

\* the workbook load_growth_data opened
Workbook == opened[Len(opened)].content

\* mutant: a second sheet of a site that has rows already is passed over
GrowthSheet_Dedup ==
    /\ pc = "sheets"
    /\ gIdx <= Len(Workbook.sheets)
    /\ LET sh      == Workbook.sheets[gIdx]
           matched == matched_school(sh.name)
       IN  IF matched # <<>>
              /\ ~\E r \in 1..Len(gAcc.rows) : gAcc.rows[r].school = matched
           THEN IF sh.readable
                THEN /\ gAcc' = Concat(gAcc, ReadSheet(sh, matched, gIdx))
                     /\ gIdx' = gIdx + 1
                     /\ UNCHANGED <<pc, diags, growth_df, growthCache, loads>>
                ELSE /\ GrowthFail
                     /\ UNCHANGED <<gIdx, gAcc>>
           ELSE /\ gIdx' = gIdx + 1
                /\ UNCHANGED <<pc, diags, growth_df, gAcc, growthCache, loads>>
    /\ UNCHANGED <<fsVars, envIdx, envAcc, env_df, opened, selected_school,
                   filtered_env, filtered_growth, call, envCache, passVars>>

\* load_growth_data: one iteration of the loop over xls.sheet_names
GrowthSheet ==
    /\ pc = "sheets"
    /\ gIdx <= Len(Workbook.sheets)
    /\ LET sh      == Workbook.sheets[gIdx]
           matched == matched_school(sh.name)
       IN  IF matched # <<>>
           THEN IF sh.readable
                THEN /\ gAcc' = Concat(gAcc, ReadSheet(sh, matched, gIdx))
                     /\ gIdx' = gIdx + 1
                     /\ UNCHANGED <<pc, diags, growth_df, growthCache, loads>>
                ELSE /\ GrowthFail
                     /\ UNCHANGED <<gIdx, gAcc>>
           ELSE /\ gIdx' = gIdx + 1
                /\ UNCHANGED <<pc, diags, growth_df, gAcc, growthCache, loads>>
    /\ UNCHANGED <<fsVars, envIdx, envAcc, env_df, opened, selected_school,
                   filtered_env, filtered_growth, call, envCache, passVars>>

\* mutant: a warning for a site that no sheet matched
GrowthReturn_WarnsUnmatched ==
    /\ pc = "sheets"
    /\ gIdx > Len(Workbook.sheets)
    /\ growthCache' = Cached(gAcc)
    /\ loads' = [loads EXCEPT !.growth = @ + 1]
    /\ growth_df' = gAcc
    /\ pc' = "check"
    /\ diags' = IF \E r \in 1..Len(gAcc.rows) : gAcc.rows[r].school = Dongsan
                THEN diags
                ELSE Append(diags, Diag("warning", "growth", Dongsan))
    /\ UNCHANGED <<fsVars, envIdx, envAcc, gIdx, gAcc, env_df, opened,
                   selected_school, filtered_env, filtered_growth, call,
                   envCache, passVars>>

\* load_growth_data: return combined_df
GrowthReturn ==
    /\ pc = "sheets"
    /\ gIdx > Len(Workbook.sheets)
    /\ growthCache' = Cached(gAcc)
    /\ loads' = [loads EXCEPT !.growth = @ + 1]
    /\ growth_df' = gAcc
    /\ pc' = "check"
    /\ UNCHANGED <<fsVars, envIdx, envAcc, gIdx, gAcc, env_df, diags, opened,
                   selected_school, filtered_env, filtered_growth, call,
                   envCache, passVars>>

\* mutant: the pass goes on without data
MainCheck_NeverStops ==
    /\ pc = "check"
    /\ diags' = diags
    /\ pc' = "sidebar"
    /\ UNCHANGED <<fsVars, envIdx, envAcc, gIdx, gAcc, env_df, growth_df,
                   opened, selected_school, filtered_env, filtered_growth, call,
                   memoVars>>

\* main: the check that there is any data
MainCheck ==
    /\ pc = "check"
    /\ IF IsEmpty(env_df) /\ IsEmpty(growth_df)
       THEN /\ diags' = Append(diags, Diag("error", "main", <<>>))
            /\ pc' = "stopped"
       ELSE /\ diags' = diags
            /\ pc' = "sidebar"
    /\ UNCHANGED <<fsVars, envIdx, envAcc, gIdx, gAcc, env_df, growth_df,
                   opened, selected_school, filtered_env, filtered_growth, call,
                   memoVars>>

school_list == {ALL} \cup Schools

\* mutant: a site is selected out of the last pass's result
MainFilter_Refines ==
    /\ pc = "sidebar"
    /\ \E sel \in school_list :
          /\ selected_school' = sel
          /\ IF sel # ALL
             THEN IF ~env_df.hasCols
                  THEN /\ pc' = "crashed"
                       /\ UNCHANGED <<filtered_env, filtered_growth>>
                  ELSE /\ filtered_env' =
                             FilterSchool(IF earlier = <<>> THEN env_df
                                          ELSE filtered_env, sel)
                       /\ IF ~growth_df.hasCols
                          THEN /\ pc' = "crashed"
                               /\ UNCHANGED filtered_growth
                          ELSE /\ filtered_growth' =
                                     FilterSchool(IF earlier = <<>> THEN growth_df
                                                  ELSE filtered_growth, sel)
                               /\ pc' = "tabs"
             ELSE /\ filtered_env' = env_df
                  /\ filtered_growth' = growth_df
                  /\ pc' = "tabs"
    /\ UNCHANGED <<fsVars, envIdx, envAcc, gIdx, gAcc, env_df, growth_df,
                   diags, opened, call, memoVars>>

\* main: the selection and the filter step; indexing a frame without a
\* 'school' column raises KeyError, which nothing in main catches
MainFilter ==
    /\ pc = "sidebar"
    /\ \E sel \in school_list :
          /\ selected_school' = sel
          /\ IF sel # ALL
             THEN IF ~env_df.hasCols
                  THEN /\ pc' = "crashed"
                       /\ UNCHANGED <<filtered_env, filtered_growth>>
                  ELSE /\ filtered_env' = FilterSchool(env_df, sel)
                       /\ IF ~growth_df.hasCols
                          THEN /\ pc' = "crashed"
                               /\ UNCHANGED filtered_growth
                          ELSE /\ filtered_growth' = FilterSchool(growth_df, sel)
                               /\ pc' = "tabs"
             ELSE /\ filtered_env' = env_df
                  /\ filtered_growth' = growth_df
                  /\ pc' = "tabs"
    /\ UNCHANGED <<fsVars, envIdx, envAcc, gIdx, gAcc, env_df, growth_df,
                   diags, opened, call, memoVars>>

Next ==
    \/ EnvSite
    \/ EnvReturn
    \/ GrowthOpen
    \/ GrowthSheet
    \/ GrowthReturn
    \/ MainCheck
    \/ MainFilter

Spec == Init /\ [][Next]_vars

----------------------------------------------------------------------------
(* One process serving several interactions, the files changing between.  *)

\* the files of the first and the third site
SessionPresent == [i \in 1..NumSchools |-> i % 2 = 1]

\* the states of DATA_DIR during a session
SessionFs ==
    { [exists |-> FALSE, entries |-> <<>>],
      [exists |-> TRUE,  entries |-> Listing(SessionPresent, TRUE)],
      [exists |-> TRUE,  entries |-> Reverse(Listing(SessionPresent, FALSE))] }

InitSession ==
    /\ \E fs \in SessionFs :
          /\ dirExists = fs.exists
          /\ dirEntries = fs.entries
    /\ pc = "env"
    /\ MainInit

\* the positions at which a pass of main() ends
Done == {"tabs", "stopped", "crashed"}

\* the user interacts and the script runs again from its top; what the last
\* pass left on the page stays until this pass replaces it
Rerun ==
    /\ pc \in Done
    /\ runs < MaxRuns
    /\ runs' = runs + 1
    /\ earlier' = IF pc = "stopped" THEN earlier
                  ELSE Append(earlier, selected_school)
    /\ pc' = "env"
    /\ UNCHANGED <<fsVars, envIdx, envAcc, gIdx, gAcc, env_df, growth_df,
                   diags, opened, selected_school, filtered_env,
                   filtered_growth, call, envCache, growthCache, loads>>

\* mutant: an entry is dropped when it is looked up, and the body runs again
EnvHit_Reloads ==
    /\ pc = "env"
    /\ envCache.set
    /\ envCache' = NoEntry
    /\ envIdx' = 1
    /\ envAcc' = EmptyDf
    /\ UNCHANGED <<fsVars, pc, gIdx, gAcc, env_df, growth_df, diags, opened,
                   selected_school, filtered_env, filtered_growth, call,
                   growthCache, loads, passVars>>

\* load_environment_data called with its entry in the cache: the body is
\* not run
EnvHit ==
    /\ pc = "env"
    /\ envCache.set
    /\ env_df' = envCache.value
    /\ pc' = "growth"
    /\ UNCHANGED <<fsVars, envIdx, envAcc, gIdx, gAcc, growth_df, diags, opened,
                   selected_school, filtered_env, filtered_growth, call,
                   memoVars>>

\* load_growth_data called with its entry in the cache
GrowthHit ==
    /\ pc = "growth"
    /\ growthCache.set
    /\ growth_df' = growthCache.value
    /\ pc' = "check"
    /\ UNCHANGED <<fsVars, envIdx, envAcc, gIdx, gAcc, env_df, diags, opened,
                   selected_school, filtered_env, filtered_growth, call,
                   memoVars>>

\* the data files change between two interactions
FsChange ==
    /\ pc \in Done
    /\ \E fs \in SessionFs :
          /\ <<fs.exists, fs.entries>> # <<dirExists, dirEntries>>
          /\ dirExists' = fs.exists
          /\ dirEntries' = fs.entries
    /\ UNCHANGED <<mainVars, call>>

NextSession ==
    \/ EnvSite
    \/ EnvReturn
    \/ GrowthOpen
    \/ GrowthSheet
    \/ GrowthReturn
    \/ MainCheck
    \/ MainFilter
    \/ Rerun
    \/ EnvHit
    \/ GrowthHit
    \/ FsChange

SpecSession == InitSession /\ [][NextSession]_vars

----------------------------------------------------------------------------
(* Direct calls of normalize_str and find_file on drawn inputs. *)

\* the stored forms of a text the source writes composed
Forms(t) == {t, NFD(t), Half(t)}

FindPool ==
    { Entry(Songdo \o EnvMarker, ExtCsv),
      Entry(NFD(Songdo \o EnvMarker), ExtCSV),
      Entry(Half(Songdo \o EnvMarker), ExtCsv),
      Entry(<<50, 52, 95>> \o Songdo \o EnvMarker, ExtCSV),
      Entry(Songdo \o EnvMarker, ExtTxt),
      Entry(NFD(Haneul \o EnvMarker), ExtCsv),
      Entry(EnvMarker, ExtCsv) }

RECURSIVE EntryLists(_)
EntryLists(k) ==
    IF k = 0 THEN {<<>>}
    ELSE EntryLists(k - 1) \cup
         {Append(l, e) : l \in {x \in EntryLists(k - 1) : Len(x) = k - 1},
                         e \in FindPool}

\* the fragments and extensions a call passes
FragPool ==
    Forms(Songdo \o EnvMarker) \cup {NFD(Haneul \o EnvMarker), Dongsan, <<>>}

ExtPool == {ExtCsv, ExtCSV, ExtXlsx}

InitLib ==
    /\ \/ /\ dirExists = TRUE
          /\ dirEntries \in EntryLists(MaxEntries)
       \/ /\ dirExists = FALSE
          /\ dirEntries = <<>>
    /\ pc = "lib"
    /\ MainInit

CallNormalize ==
    /\ pc = "lib"
    /\ call.fn = "none"
    /\ \E s \in FragPool :
          call' = [NoCall EXCEPT !.fn = "normalize_str", !.text = s,
                                 !.result = normalize_str(s)]
    /\ UNCHANGED <<fsVars, mainVars>>

CallFindFile ==
    /\ pc = "lib"
    /\ call.fn = "none"
    /\ \E partial_name \in FragPool, extension \in ExtPool :
          call' = [NoCall EXCEPT !.fn = "find_file", !.text = partial_name,
                                 !.extension = extension,
                                 !.found = find_file(dirExists, dirEntries,
                                                     partial_name, extension)]
    /\ UNCHANGED <<fsVars, mainVars>>

NextLib == CallNormalize \/ CallFindFile

SpecLib == InitLib /\ [][NextLib]_vars

----------------------------------------------------------------------------
(* Vocabulary of the properties. *)

\* the lookup load_environment_data makes for site i
FoundCsv(i) == find_file(dirExists, dirEntries, SchoolKeys[i] \o EnvMarker, ExtCsv)

\* the lookup load_growth_data makes
FoundWb == find_file(dirExists, dirEntries, GrowthName, ExtXlsx)

\* the four lookups of load_environment_data, in configuration order
FoundAll == <<FoundCsv(1), FoundCsv(2), FoundCsv(3), FoundCsv(4)>>

\* the file at `path` was read
WasRead(path) == \E k \in 1..Len(opened) : opened[k].path = path

\* what was read at `path`
ReadAt(path) ==
    opened[CHOOSE k \in 1..Len(opened) : opened[k].path = path].content

\* f[i] is a file, and one that parses
WellFormed(f, i) ==
    f[i] # 0 /\ \A k \in 1..Len(opened) :
                   opened[k].path = f[i] => opened[k].content.readable

\* f[i] is a file that fails to parse
Malformed(f, i) == f[i] # 0 /\ WasRead(f[i]) /\ ~ReadAt(f[i]).readable

\* rows of the file f[i]
FileRows(f, i) == Len(ReadAt(f[i]).times)

RECURSIVE SumRows(_, _)
SumRows(f, i) == IF i = 0 THEN 0 ELSE FileRows(f, i) + SumRows(f, i - 1)

CountSchool(rows, school) ==
    Cardinality({k \in 1..Len(rows) : rows[k].school = school})

CountSrc(rows, src) ==
    Cardinality({k \in 1..Len(rows) : rows[k].src = src})

DiagsOf(src) == SelectSeq(diags, LAMBDA d : d.src = src)

\* load_environment_data has returned
EnvLoaded == pc \in {"growth", "sheets", "check", "stopped", "sidebar", "tabs", "crashed"}

\* load_growth_data has returned
GrowthLoaded == pc \in {"check", "stopped", "sidebar", "tabs", "crashed"}

\* the index of the first configured site whose name the composed form of
\* the sheet name contains; 0 when there is none
FirstSite(name) ==
    LET composed == NFC(name)
        hits     == {i \in 1..NumSchools : Contains(composed, SchoolKeys[i])}
    IN  IF hits = {} THEN 0 ELSE CHOOSE i \in hits : \A j \in hits : i <= j

\* FirstSite of each sheet of a workbook, in sheet order
RECURSIVE SitesFrom(_, _)
SitesFrom(sheets, j) ==
    IF j > Len(sheets) THEN <<>>
    ELSE <<FirstSite(sheets[j].name)>> \o SitesFrom(sheets, j + 1)

SheetSites(sheets) == SitesFrom(sheets, 1)

----------------------------------------------------------------------------
(* Properties. *)

\* C1: when a well-formed CSV is found for each of the four sites, the table
\* load_environment_data returns has as many rows as the four files
\* together, and every row's target_ec is the configured ec of the row's
\* school.
C1_AllSitesMerged ==
    pc = "growth" =>
        LET f == FoundAll
        IN  (\A i \in 1..NumSchools : WellFormed(f, i)) =>
               /\ \A i \in 1..NumSchools : WasRead(f[i])
               /\ Len(env_df.rows) = SumRows(f, NumSchools)
               /\ \A k \in 1..Len(env_df.rows) :
                     \E i \in 1..NumSchools :
                        /\ SCHOOL_CONFIG[i].name = env_df.rows[k].school
                        /\ SCHOOL_CONFIG[i].ec = env_df.rows[k].target_ec

C1_Witness ==
    /\ pc = "growth"
    /\ LET f == FoundAll IN \A i \in 1..NumSchools : WellFormed(f, i)
    /\ Len(env_df.rows) >= 3
    /\ \E k \in 1..Len(env_df.rows) : env_df.rows[k].target_ec = 8

\* the one site whose file is not found, the three others being well-formed
OnlyMissing(f, m) ==
    /\ f[m] = 0
    /\ \A i \in 1..NumSchools \ {m} : WellFormed(f, i)

\* C2: when the file of exactly one site is not found and the three others
\* are well-formed, load_environment_data returns exactly the rows of the
\* three others, with exactly one warning, which names the missing site; the
\* sites after the missing one are loaded.
C2_OneSiteMissing ==
    pc = "growth" =>
        LET f == FoundAll
        IN  \A m \in 1..NumSchools :
               OnlyMissing(f, m) =>
                  /\ CountSchool(env_df.rows, SchoolKeys[m]) = 0
                  /\ \A i \in 1..NumSchools \ {m} :
                        /\ WasRead(f[i])
                        /\ CountSchool(env_df.rows, SchoolKeys[i]) = FileRows(f, i)
                  /\ \A k \in 1..Len(env_df.rows) :
                        env_df.rows[k].school \in Schools
                  /\ DiagsOf("env") = <<Diag("warning", "env", SchoolKeys[m])>>

C2_Witness ==
    /\ pc = "growth"
    /\ OnlyMissing(FoundAll, 2)
    /\ CountSchool(env_df.rows, SchoolKeys[3]) = 2
    /\ CountSchool(env_df.rows, SchoolKeys[4]) = 1
    /\ Len(diags) = 1

\* C3: every sheet of the workbook goes to the first site, in configuration
\* order, whose name the NFC form of the sheet name contains, and all its
\* rows carry that site; a sheet naming two sites goes to the one configured
\* first, and a sheet naming no site contributes no rows.
C3_SheetToFirstSite ==
    (pc = "check" /\ DiagsOf("growth") = <<>>) =>
        LET sheets == Workbook.sheets
            site   == SheetSites(sheets)
        IN  /\ \A j \in 1..Len(sheets) :
                  CountSrc(growth_df.rows, j) =
                      IF site[j] = 0 THEN 0 ELSE sheets[j].n
            /\ \A k \in 1..Len(growth_df.rows) :
                  LET r == growth_df.rows[k]
                  IN  /\ r.src \in 1..Len(sheets)
                      /\ site[r.src] # 0
                      /\ r.school = SchoolKeys[site[r.src]]

C3_Witness ==
    /\ pc = "check"
    /\ DiagsOf("growth") = <<>>
    /\ \E j \in 1..Len(Workbook.sheets) :
          /\ Workbook.sheets[j].name = Dongsan \o Songdo
          /\ \E k \in 1..Len(growth_df.rows) :
                growth_df.rows[k].src = j /\ growth_df.rows[k].school = Songdo
    /\ \E j \in 1..Len(Workbook.sheets) :
          /\ Workbook.sheets[j].name = Sheet1
          /\ CountSrc(growth_df.rows, j) = 0

\* f is a subsequence of t: its rows are rows of t, in t's order
RECURSIVE IsSubseqFrom(_, _, _, _)
IsSubseqFrom(f, i, t, j) ==
    IF i > Len(f) THEN TRUE
    ELSE IF j > Len(t) THEN FALSE
    ELSE IF f[i] = t[j] THEN IsSubseqFrom(f, i + 1, t, j + 1)
    ELSE IsSubseqFrom(f, i, t, j + 1)

IsSubseq(f, t) == IsSubseqFrom(f, 1, t, 1)

\* f holds exactly the rows of t whose school is sel, in t's order
IsSelection(f, t, sel) ==
    /\ f.hasCols = t.hasCols
    /\ IsSubseq(f.rows, t.rows)
    /\ \A k \in 1..Len(f.rows) : f.rows[k].school = sel
    /\ CountSchool(f.rows, sel) = CountSchool(t.rows, sel)

HasOtherSchool(t, sel) == \E k \in 1..Len(t.rows) : t.rows[k].school # sel

\* the filter of env_df has completed
EnvFiltered == pc = "tabs" \/ (pc = "crashed" /\ env_df.hasCols)

\* the filter of growth_df has completed
GrowthFiltered == pc = "tabs"

BothEmpty == IsEmpty(env_df) /\ IsEmpty(growth_df)

\* C5 (as claimed): no exception leaves the load and filter steps, and the
\* pass refuses to render exactly when both tables are empty: whenever one
\* table is non-empty, for every selection, the filter step completes.
C5_AsClaimed ==
    /\ pc # "crashed"
    /\ pc = "stopped" => BothEmpty
    /\ pc \in {"sidebar", "tabs"} => ~BothEmpty

\* the equivalent forms of a text: composed, decomposed, and with only the
\* final consonants decomposed
Equivalents(t) == {NFC(t), NFD(t), Half(NFC(t))}

Restem(entries, form) ==
    [k \in 1..Len(entries) |->
        Entry(IF form = "NFC" THEN NFC(entries[k].stem) ELSE NFD(entries[k].stem),
              entries[k].suffix)]

\* C6: normalize_str gives the same output for the composed and the
\* decomposed form of a text, and find_file returns the same file whether
\* the stems of the directory are stored composed or decomposed and whether
\* the fragment is passed composed or decomposed.
C6_FormIndependent ==
    /\ call.fn = "normalize_str" =>
          \A u \in Equivalents(call.text) : normalize_str(u) = call.result
    /\ call.fn = "find_file" =>
          \A form \in {"NFC", "NFD"} :
             \A u \in Equivalents(call.text) :
                find_file(dirExists, Restem(dirEntries, form), u,
                          call.extension) = call.found

C6_Witness ==
    /\ call.fn = "find_file"
    /\ call.found = 2
    /\ call.text # NFC(call.text)
    /\ dirEntries[2].stem = NFC(dirEntries[2].stem)
    /\ dirEntries[1].stem # NFC(dirEntries[1].stem)

\* entry e has the extension, case ignored, and its composed stem contains
\* the composed fragment
Eligible(e, fragment, extension) ==
    /\ Lower(e.suffix) = Lower(extension)
    /\ Contains(NFC(e.stem), NFC(fragment))

C7_State ==
    call.fn = "find_file" =>
        /\ ~dirExists => call.found = 0
        /\ (\A k \in 1..Len(dirEntries) :
               ~Eligible(dirEntries[k], call.text, call.extension))
              => call.found = 0
        /\ call.found # 0 =>
              /\ call.found \in 1..Len(dirEntries)
              /\ Eligible(dirEntries[call.found], call.text, call.extension)

\* C7: find_file returns None, changing nothing, when the directory does not
\* exist and when no entry has both the extension and a normalized stem
\* containing the normalized fragment; it returns a path only of such an
\* entry.
C7_NotFound ==
    /\ []C7_State
    /\ [][call' # call => UNCHANGED <<fsVars, mainVars>>]_vars

C7_Witness ==
    /\ call.fn = "find_file"
    /\ call.found = 0
    /\ dirExists
    /\ Len(dirEntries) = MaxEntries
    /\ \E k \in 1..Len(dirEntries) :
          /\ Contains(NFC(dirEntries[k].stem), NFC(call.text))
          /\ Lower(dirEntries[k].suffix) # Lower(call.extension)
    /\ \E k \in 1..Len(dirEntries) :
          /\ ~Contains(NFC(dirEntries[k].stem), NFC(call.text))
          /\ Lower(dirEntries[k].suffix) = Lower(call.extension)

\* the file the step just read failed to parse
ParseFailed == opened' # opened /\ ~opened'[Len(opened')].content.readable

C8_Step ==
    (pc = "env" /\ ParseFailed) =>
        /\ diags' = Append(diags, Diag("error", "env", SchoolKeys[envIdx]))
        /\ envAcc' = envAcc
        /\ envIdx' = envIdx + 1
        /\ pc' = "env"

C8_State ==
    pc = "growth" =>
        LET f == FoundAll
        IN  \A i \in 1..NumSchools :
               /\ f[i] # 0 => WasRead(f[i])
               /\ Malformed(f, i) =>
                     CountSchool(env_df.rows, SchoolKeys[i]) = 0
               /\ (WellFormed(f, i) /\ WasRead(f[i])) =>
                     CountSchool(env_df.rows, SchoolKeys[i]) = FileRows(f, i)

\* C8: when one site's CSV fails to parse, load_environment_data emits one
\* error naming the site, adds none of its rows, leaves the rows accumulated
\* from earlier sites as they are, and goes on with the remaining sites.
C8_ParseErrorSkipsSite ==
    /\ []C8_State
    /\ [][C8_Step]_vars

C8_Witness ==
    /\ pc = "growth"
    /\ DiagsOf("env") = <<Diag("error", "env", Haneul)>>
    /\ CountSchool(env_df.rows, Songdo) >= 1
    /\ CountSchool(env_df.rows, Haneul) = 0
    /\ CountSchool(env_df.rows, Ara) >= 1

\* load_growth_data opened a workbook
WbOpened ==
    /\ opened # <<>>
    /\ Lower(dirEntries[opened[Len(opened)].path].suffix) = ExtXlsx

\* opening the workbook, or reading a sheet assigned to a site, raises
GrowthRaises ==
    \/ ~Workbook.readable
    \/ \E j \in 1..Len(Workbook.sheets) :
          ~Workbook.sheets[j].readable /\ FirstSite(Workbook.sheets[j].name) # 0

\* C9: when opening the workbook or reading one of its sheets raises,
\* load_growth_data returns an empty table with exactly one error, and the
\* rows of the sheets read before are discarded.
C9_WorkbookErrorAborts ==
    (pc = "check" /\ WbOpened /\ GrowthRaises) =>
        /\ growth_df = EmptyDf
        /\ DiagsOf("growth") = <<Diag("error", "growth", <<>>)>>

C9_Witness ==
    /\ pc = "check"
    /\ WbOpened
    /\ GrowthRaises
    /\ Len(gAcc.rows) >= 2
    /\ growth_df = EmptyDf

\* C10 (as claimed): when the workbook is not found, load_growth_data
\* opens no file, emits one error and returns an empty table, and main
\* goes on with the empty growth table whenever the environment table is
\* non-empty.
C10_AsClaimed ==
    (GrowthLoaded /\ FoundWb = 0) =>
        /\ ~WbOpened
        /\ growth_df = EmptyDf
        /\ DiagsOf("growth") = <<Diag("error", "growth", <<>>)>>
        /\ ~IsEmpty(env_df) => pc \in {"check", "sidebar", "tabs"}

\* every row of the table is of a configured site
SitesOnly(df) == \A k \in 1..Len(df.rows) : df.rows[k].school \in Schools

\* the diagnostics equal to d
Occurrences(d) == Cardinality({k \in 1..Len(diags) : diags[k] = d})

\* C11: in every table the two loaders build or return, whatever is found,
\* missing or malformed, every row's school is one of the four configured
\* sites; a sheet that matches no site contributes no rows; a site whose
\* environment file is not found contributes no rows and gets one warning.
C11_RowsOfConfiguredSites ==
    /\ SitesOnly(envAcc) /\ SitesOnly(env_df) /\ SitesOnly(envCache.value)
    /\ SitesOnly(gAcc) /\ SitesOnly(growth_df) /\ SitesOnly(growthCache.value)
    /\ (pc = "check" /\ WbOpened /\ Workbook.readable) =>
          LET site == SheetSites(Workbook.sheets)
          IN  \A j \in 1..Len(site) :
                 site[j] = 0 =>
                    /\ CountSrc(gAcc.rows, j) = 0
                    /\ CountSrc(growth_df.rows, j) = 0
    /\ pc = "growth" =>
          LET f == FoundAll
          IN  \A i \in 1..NumSchools :
                 f[i] = 0 =>
                    /\ CountSchool(env_df.rows, SchoolKeys[i]) = 0
                    /\ Occurrences(Diag("warning", "env", SchoolKeys[i])) = 1

C11_Witness ==
    /\ pc = "check"
    /\ WbOpened
    /\ \E j \in 1..Len(Workbook.sheets) :
          Workbook.sheets[j].name = Sheet1 /\ Workbook.sheets[j].n >= 1
    /\ Len(growth_df.rows) >= 1
    /\ Len(env_df.rows) >= 1
    /\ Occurrences(Diag("warning", "env", Songdo)) = 1
    /\ Occurrences(Diag("error", "env", Ara)) = 1
    /\ CountSchool(env_df.rows, Songdo) = 0

\* the position of a site in SCHOOL_CONFIG
SiteIndex(school) == CHOOSE i \in 1..NumSchools : SchoolKeys[i] = school

\* a row of an earlier configured site precedes a row of a later one
InSiteOrder(df) ==
    \A a, b \in 1..Len(df.rows) :
       SiteIndex(df.rows[a].school) < SiteIndex(df.rows[b].school) => a < b

\* a row of an earlier source (sheet) precedes a row of a later one, and the
\* rows of one source are in the source's order
InSourceOrder(df) ==
    \A a, b \in 1..Len(df.rows) :
       \/ df.rows[a].src < df.rows[b].src
       \/ df.rows[a].src = df.rows[b].src /\ df.rows[a].n < df.rows[b].n
       => a < b

\* C12 (as amended): the environment table is grouped by site in configured
\* site order, whatever the order of the directory listing; the growth table
\* is grouped by sheet in the workbook's sheet order, each sheet's rows
\* carrying the site the sheet is assigned to.
C12_EnvSiteOrderGrowthSheetOrder ==
    /\ pc \in {"env", "growth"} => InSiteOrder(envAcc)
    /\ pc = "growth" => InSiteOrder(env_df)
    /\ pc \in {"sheets", "check"} => InSourceOrder(gAcc)
    /\ pc = "check" =>
          /\ InSourceOrder(growth_df)
          /\ LET site == SheetSites(Workbook.sheets)
             IN  \A k \in 1..Len(growth_df.rows) :
                    growth_df.rows[k].school = SchoolKeys[site[growth_df.rows[k].src]]

C12_Witness ==
    /\ pc = "check"
    /\ Len(env_df.rows) >= 2
    /\ env_df.rows[1].school = Songdo
    /\ env_df.rows[Len(env_df.rows)].school = Dongsan
    /\ env_df.rows[Len(env_df.rows)].src < env_df.rows[1].src
    /\ Len(growth_df.rows) >= 2
    /\ growth_df.rows[1].school = Ara
    /\ growth_df.rows[Len(growth_df.rows)].school = Songdo

\* C12 (as claimed): in each merged table, environment and growth, a row of
\* an earlier configured site precedes every row of a later configured site.
C12_AsClaimed ==
    /\ pc = "growth" => InSiteOrder(env_df)
    /\ pc = "check" => InSiteOrder(growth_df)

\* what the filter step yields from a table and a selection
Filtered(df, sel) == IF sel = ALL THEN df ELSE FilterSchool(df, sel)

LoaderDiags == SelectSeq(diags, LAMBDA d : d.src # "main")

C13_State ==
    /\ loads.env <= 1 /\ loads.growth <= 1
    /\ envCache.set => loads.env = 1 /\ env_df = envCache.value
    /\ growthCache.set => loads.growth = 1 /\ growth_df = growthCache.value
    /\ runs > 1 => envCache.set /\ growthCache.set

C13_Step ==
    /\ envCache.set => envCache' = envCache
    /\ growthCache.set => growthCache' = growthCache
    /\ runs > 1 =>
          /\ opened' = opened
          /\ loads' = loads
          /\ LoaderDiags' = LoaderDiags
          /\ env_df' = env_df /\ growth_df' = growth_df
    /\ fsVars' # fsVars =>
          UNCHANGED <<envCache, growthCache, env_df, growth_df>>
    /\ (pc = "sidebar" /\ pc' = "tabs") =>
          /\ filtered_env' = Filtered(envCache.value, selected_school')
          /\ filtered_growth' = Filtered(growthCache.value, selected_school')

\* C13: across the interactions of one process each loader's body runs at
\* most once; every later pass gets the table of the first load from the
\* cache, opening no file and looking nothing up, so a change of the data
\* files after the first load changes no table; the filter step is computed
\* anew in every pass from the cached tables and the current selection.
C13_LoadOnce ==
    /\ []C13_State
    /\ [][C13_Step]_vars

C13_Witness ==
    /\ runs = MaxRuns
    /\ pc = "tabs"
    /\ ~dirExists
    /\ opened # <<>>
    /\ loads = [env |-> 1, growth |-> 1]
    /\ selected_school = Ara
    /\ Len(env_df.rows) > Len(filtered_env.rows)
    /\ Len(filtered_env.rows) >= 1
    /\ Len(growth_df.rows) >= 1

\* the warnings of the first n sites, in configuration order
MissingWarnings(n) == [i \in 1..n |-> Diag("warning", "env", SchoolKeys[i])]

\* C14: when DATA_DIR does not exist neither loader raises or opens a file:
\* load_environment_data warns once for each configured site and returns an
\* empty table, load_growth_data reports one error and returns an empty
\* table, and main reports that there is no data and stops.
C14_MissingDirectory ==
    ~dirExists =>
        /\ pc \in {"env", "growth", "check", "stopped"}
        /\ opened = <<>>
        /\ envAcc = EmptyDf /\ env_df = EmptyDf
        /\ gAcc = EmptyDf /\ growth_df = EmptyDf
        /\ pc = "env" => diags = MissingWarnings(envIdx - 1)
        /\ pc = "growth" => diags = MissingWarnings(NumSchools)
        /\ pc = "check" =>
              diags = Append(MissingWarnings(NumSchools),
                             Diag("error", "growth", <<>>))
        /\ pc = "stopped" =>
              diags = MissingWarnings(NumSchools)
                         \o <<Diag("error", "growth", <<>>),
                              Diag("error", "main", <<>>)>>

C14_Witness ==
    /\ ~dirExists
    /\ pc = "stopped"
    /\ Len(diags) = NumSchools + 2

\* the positions of the listing whose entries the call may return
EligibleAt(fragment, extension) ==
    {k \in 1..Len(dirEntries) : Eligible(dirEntries[k], fragment, extension)}

\* C15: find_file returns the first entry, in listing order, whose extension
\* is the requested one, case ignored, and whose normalized stem contains
\* the normalized fragment: no entry after the first match, and no entry
\* with another extension, is ever returned.
C15_FirstMatch ==
    call.fn = "find_file" =>
        LET hits == EligibleAt(call.text, call.extension)
        IN  /\ (dirExists /\ hits # {}) =>
                  /\ call.found \in hits
                  /\ \A k \in hits : call.found <= k
            /\ call.found # 0 =>
                  /\ Lower(dirEntries[call.found].suffix) = Lower(call.extension)
                  /\ \A k \in 1..(call.found - 1) : k \notin hits

C15_Witness ==
    /\ call.fn = "find_file"
    /\ call.found = 1
    /\ Cardinality(EligibleAt(call.text, call.extension)) = MaxEntries
    /\ dirEntries[1] # dirEntries[MaxEntries]
    /\ dirEntries[1].suffix # call.extension

\* the rows of a table that carry a site
RowsOfSchool(df, school) == SelectSeq(df.rows, LAMBDA r : r.school = school)

\* the raw time value is a timestamp
Parsable(raw) == raw = "r1"

\* C16: of every environment file that parses, the table returned holds as
\* many rows as the file; with a time column, a row whose time value is not
\* a timestamp gets the null time and the other rows their timestamps, and
\* without one no time is set; in both cases no diagnostic names the site.
C16_BadTimeCoerced ==
    pc = "growth" =>
        LET f == FoundAll
        IN  \A i \in 1..NumSchools :
               (WellFormed(f, i) /\ WasRead(f[i])) =>
                  LET c == ReadAt(f[i])
                      rows == RowsOfSchool(env_df, SchoolKeys[i])
                  IN  /\ Len(rows) = Len(c.times)
                      /\ \A k \in 1..Len(rows) :
                            rows[k].time =
                               IF ~c.hasTime THEN "absent"
                               ELSE IF Parsable(c.times[k]) THEN "ts1"
                               ELSE "NaT"
                      /\ \A k \in 1..Len(diags) :
                            diags[k].site # SchoolKeys[i]

C16_Witness ==
    /\ pc = "growth"
    /\ diags = <<>>
    /\ \E a, b \in 1..Len(env_df.rows) :
          /\ env_df.rows[a].school = env_df.rows[b].school
          /\ env_df.rows[a].time = "ts1"
          /\ env_df.rows[b].time = "NaT"
    /\ \E a \in 1..Len(env_df.rows) : env_df.rows[a].time = "absent"

\* the sheets of the workbook assigned to site i
SheetsOf(i) ==
    {j \in 1..Len(Workbook.sheets) : FirstSite(Workbook.sheets[j].name) = i}

\* C17: load_growth_data emits at most one diagnostic in a load, and only
\* the error of a workbook not found or the error of a load that raised;
\* when the workbook is read to its end it emits none, and a site that no
\* sheet matches then has no rows in the table.
C17_GrowthDiagnostics ==
    /\ Len(DiagsOf("growth")) <= 1
    /\ \A k \in 1..Len(diags) :
          diags[k].src = "growth" => diags[k] = Diag("error", "growth", <<>>)
    /\ pc \in {"growth", "sheets"} => DiagsOf("growth") = <<>>
    /\ pc = "check" =>
          IF ~WbOpened \/ GrowthRaises
          THEN Len(DiagsOf("growth")) = 1 /\ growth_df = EmptyDf
          ELSE /\ DiagsOf("growth") = <<>>
               /\ LET site == SheetSites(Workbook.sheets)
                  IN  \A i \in 1..NumSchools :
                         (\A j \in 1..Len(site) : site[j] # i) =>
                            CountSchool(growth_df.rows, SchoolKeys[i]) = 0

C17_Witness ==
    /\ pc = "check"
    /\ WbOpened
    /\ ~GrowthRaises
    /\ Len(Workbook.sheets) = MaxSheets
    /\ SheetsOf(4) = {}
    /\ SheetsOf(3) # {}
    /\ Len(growth_df.rows) >= 1
    /\ DiagsOf("growth") = <<>>

\* the filter step raises on a table without the school column
FilterRaises(sel) ==
    sel # ALL /\ (~envCache.value.hasCols \/ ~growthCache.value.hasCols)

C18_State ==
    pc = "tabs" =>
        /\ filtered_env = Filtered(envCache.value, selected_school)
        /\ filtered_growth = Filtered(growthCache.value, selected_school)
        /\ selected_school = ALL =>
              filtered_env = envCache.value /\ filtered_growth = growthCache.value
        /\ selected_school # ALL =>
              /\ IsSelection(filtered_env, envCache.value, selected_school)
              /\ IsSelection(filtered_growth, growthCache.value, selected_school)

C18_Step ==
    pc = "sidebar" =>
        /\ UNCHANGED <<envCache, growthCache, env_df, growth_df>>
        /\ pc' = "crashed" <=> FilterRaises(selected_school')
        /\ pc' = "tabs" <=> ~FilterRaises(selected_school')

\* C18: the filter step leaves the cached tables and main's copies of them
\* as they are, and its result is a function of the cached tables and the
\* current selection alone: whatever was selected in the passes before,
\* "all" yields the tables as loaded and a site yields that site's rows of
\* the tables as loaded.
C18_FilterIsPure ==
    /\ []C18_State
    /\ [][C18_Step]_vars

C18_Witness ==
    /\ pc = "tabs"
    /\ runs = MaxRuns
    /\ earlier[Len(earlier)] = Songdo
    /\ selected_school = Ara
    /\ Len(filtered_env.rows) >= 1
    /\ Len(filtered_growth.rows) >= 1
    /\ CountSchool(envCache.value.rows, Songdo) >= 1
    /\ CountSchool(growthCache.value.rows, Songdo) >= 1

\* the rows of the first j sheets among those whose site is in `sites`
RECURSIVE SheetRows(_, _, _, _)
SheetRows(sheets, site, sites, j) ==
    IF j = 0 THEN 0
    ELSE (IF site[j] \in sites THEN sheets[j].n ELSE 0)
         + SheetRows(sheets, site, sites, j - 1)

\* C19: when the workbook is read to its end, every sheet assigned to a
\* site is appended, also when an earlier sheet went to the same site: the
\* rows of a site are as many as the rows of all its sheets together, in
\* the sheets' order, and the table has as many rows as all matched sheets
\* together.
C19_SheetsOfOneSiteAdded ==
    (pc = "check" /\ DiagsOf("growth") = <<>>) =>
        LET sheets == Workbook.sheets
            site   == SheetSites(sheets)
        IN  /\ \A i \in 1..NumSchools :
                  CountSchool(growth_df.rows, SchoolKeys[i]) =
                     SheetRows(sheets, site, {i}, Len(sheets))
            /\ Len(growth_df.rows) =
                  SheetRows(sheets, site, 1..NumSchools, Len(sheets))
            /\ InSourceOrder(growth_df)

C19_Witness ==
    /\ pc = "check"
    /\ DiagsOf("growth") = <<>>
    /\ Len(Workbook.sheets) >= 2
    /\ Workbook.sheets[1].name = Dongsan \o Songdo
    /\ Workbook.sheets[2].name = NFD(Songdo \o SfxData)
    /\ CountSchool(growth_df.rows, Songdo) = MaxRows + 1
    /\ growth_df.rows[1].src = 1
    /\ growth_df.rows[2].src = 2

====
